---- MODULE Spec2Model ----
(***************************************************************************)
(* Model of handcrafted_stereo.py: zero padding (add_padding), the         *)
(* scanline SAD search (match_on_scanline) and the disparity engine (sad). *)
(* Arrays are records [h, w, px] with 0-based indices, as in numpy; slices *)
(* and broadcasting follow the numpy rules the code relies on.             *)
(***************************************************************************)
EXTENDS Integers, FiniteSets, Sequences, TLC

\* ---------------------------------------------------------------- bounds
MaxH == 2
MaxW == 3
MaxWin == 4
MaxDisp == 3
PixHi == 1

\* ------------------------------------------------------- numpy primitives
Pix == {0, PixHi}

Abs(v) == IF v < 0 THEN -v ELSE v

Cells(h, w) == (0 .. h - 1) \X (0 .. w - 1)

\* np.zeros((h, w))
Zeros(h, w) == [h |-> h, w |-> w, px |-> [c \in Cells(h, w) |-> 0]]

\* a slice bound i on an axis of length n: negative counts from the end, then clamp
SliceBound(i, n) ==
    IF i < 0 THEN (IF i + n < 0 THEN 0 ELSE i + n)
             ELSE (IF i > n THEN n ELSE i)

SliceLo(a, n) == SliceBound(a, n)

SliceLen(a, b, n) ==
    IF SliceBound(b, n) > SliceBound(a, n) THEN SliceBound(b, n) - SliceBound(a, n) ELSE 0

\* A[r0:r1, c0:c1]
Slice2D(A, r0, r1, c0, c1) ==
    [h |-> SliceLen(r0, r1, A.h),
     w |-> SliceLen(c0, c1, A.w),
     px |-> [c \in Cells(SliceLen(r0, r1, A.h), SliceLen(c0, c1, A.w)) |->
                A.px[<<SliceLo(r0, A.h) + c[1], SliceLo(c0, A.w) + c[2]>>]]]

\* numpy broadcasting of one axis: lengths agree or one of them is 1
AxisCompatible(a, b) == a = b \/ a = 1 \/ b = 1

AxisLen(a, b) == IF a = 1 THEN b ELSE a

AxisIdx(i, a) == IF a = 1 THEN 0 ELSE i

Broadcastable(A, B) == AxisCompatible(A.h, B.h) /\ AxisCompatible(A.w, B.w)

\* a source of shape (sh, sw) can be assigned into a target of shape (th, tw)
AssignOk(th, tw, sh, sw) == (sh = th \/ sh = 1) /\ (sw = tw \/ sw = 1)

RECURSIVE SumTo(_, _)
SumTo(f, n) == IF n <= 0 THEN 0 ELSE f[n - 1] + SumTo(f, n - 1)

\* np.sum(np.abs(A - B)) for broadcastable A, B
SumAbsDiff(A, B) ==
    LET h == AxisLen(A.h, B.h)
        w == AxisLen(A.w, B.w)
        flat == [k \in 0 .. h * w - 1 |->
                    Abs(A.px[<<AxisIdx(k \div w, A.h), AxisIdx(k % w, A.w)>>]
                        - B.px[<<AxisIdx(k \div w, B.h), AxisIdx(k % w, B.w)>>])]
    IN  SumTo(flat, h * w)

\* ------------------------------------------------------------ add_padding
\* padded = np.zeros((H+2p, W+2p)); padded[p:-p, p:-p] = I
add_padding(I, padding) ==
    LET ph == I.h + 2 * padding
        pw == I.w + 2 * padding
        r0 == SliceLo(padding, ph)
        c0 == SliceLo(padding, pw)
        rn == SliceLen(padding, -padding, ph)
        cn == SliceLen(padding, -padding, pw)
    IN  IF AssignOk(rn, cn, I.h, I.w)
        THEN [ok |-> TRUE,
              img |-> [h |-> ph, w |-> pw,
                       px |-> [c \in Cells(ph, pw) |->
                                 IF /\ r0 <= c[1] /\ c[1] < r0 + rn
                                    /\ c0 <= c[2] /\ c[2] < c0 + cn
                                 THEN I.px[<<AxisIdx(c[1] - r0, I.h), AxisIdx(c[2] - c0, I.w)>>]
                                 ELSE 0]]]
        ELSE [ok |-> FALSE, img |-> Zeros(ph, pw)]

\* ------------------------------------------------------ match_on_scanline
\* minimal_sad = max_disparity + 1
InitialMinimalSad(max_disparity) == max_disparity + 1

\* variant: the loop runs one candidate too far, range(max_disparity + 1)
DisparityBoundInclusive(max_disparity) == max_disparity + 1

\* for d in range(max_disparity)
DisparityBound(max_disparity) == max_disparity

\* variant: the search walks to the right, disp_x = x + d
DispXRightwards(x, d) == x + d

\* disp_x = x - d
DispX(x, d) == x - d

\* variant: an equal score replaces the recorded minimum
SadImprovesOrTies(s, minimal_sad) == s <= minimal_sad

\* if sad < minimal_sad
SadImproves(s, minimal_sad) == s < minimal_sad

\* variant: the recorded minimum is never updated
KeepMinimalSad(s, minimal_sad) == minimal_sad

\* minimal_sad = sad
NextMinimalSad(s, minimal_sad) == s

\* variant: the score is returned instead of the disparity
ReturnsScore(minimal_sad, minimal_sad_d) == minimal_sad

\* return minimal_sad_d
ReturnValue(minimal_sad, minimal_sad_d) == minimal_sad_d

\* the body of the for loop from candidate d on; tried collects the candidates
\* whose right window was read
RECURSIVE ScanLoop(_, _, _, _, _, _, _, _, _, _)
ScanLoop(d, minimal_sad, minimal_sad_d, tried, left_patch, image_right, x, y, max_disparity, window_size) ==
    IF d >= DisparityBound(max_disparity) \/ DispX(x, d) < 0
    THEN [err |-> FALSE, d |-> ReturnValue(minimal_sad, minimal_sad_d), tried |-> tried]
    ELSE LET disp_x == DispX(x, d)
             region == Slice2D(image_right, y, y + window_size, disp_x, disp_x + window_size)
         IN  IF ~Broadcastable(left_patch, region)
             THEN [err |-> TRUE, d |-> 0, tried |-> tried \cup {d}]
             ELSE LET s == SumAbsDiff(left_patch, region)
                  IN  IF SadImproves(s, minimal_sad)
                      THEN ScanLoop(d + 1, NextMinimalSad(s, minimal_sad), d, tried \cup {d},
                                    left_patch, image_right, x, y, max_disparity, window_size)
                      ELSE ScanLoop(d + 1, minimal_sad, minimal_sad_d, tried \cup {d},
                                    left_patch, image_right, x, y, max_disparity, window_size)

match_on_scanline(left_patch, image_right, x, y, max_disparity, window_size) ==
    ScanLoop(0, InitialMinimalSad(max_disparity), 0, {},
             left_patch, image_right, x, y, max_disparity, window_size)

\* -------------------------------------------------------------------- sad
\* padding = window_size // 2
Padding(window_size) == window_size \div 2

\* variant: the last row is left out, range(height - window_size)
RowRangeShort(height, window_size) == height - window_size

\* range(height - window_size + 1)
RowRange(height, window_size) == height - window_size + 1

\* variant: the columns run over the whole padded width, range(width)
ColRangeWhole(width, window_size) == width

\* range(width - window_size + 1)
ColRange(width, window_size) == width - window_size + 1

\* D[i] on an axis of length n: -n <= i < n, negative counts from the end
IndexOk(i, n) == -n <= i /\ i < n

IndexNorm(i, n) == IF i < 0 THEN i + n ELSE i

\* ----------------------------------------------------------------- inputs
\* images whose rows are all equal to one column profile
Stripes(h, w) ==
    {[h |-> h, w |-> w, px |-> [c \in Cells(h, w) |-> col[c[2]]]] : col \in [0 .. w - 1 -> Pix]}

\* constant horizontal gradient 1, 2, 3, ...
Gradient(h, w) == [h |-> h, w |-> w, px |-> [c \in Cells(h, w) |-> c[2] + 1]]

\* content of column c of I appears at column c - k; vacated columns are zero
ShiftLeft(I, k) ==
    [h |-> I.h, w |-> I.w,
     px |-> [c \in Cells(I.h, I.w) |-> IF c[2] + k < I.w THEN I.px[<<c[1], c[2] + k>>] ELSE 0]]

\* content of column c of I appears at column c + k; vacated columns are zero
ShiftRight(I, k) ==
    [h |-> I.h, w |-> I.w,
     px |-> [c \in Cells(I.h, I.w) |-> IF c[2] - k >= 0 THEN I.px[<<c[1], c[2] - k>>] ELSE 0]]

\* the 10x10 gradient scenario: window 3, search range 5, shift 2
Scenario == [h |-> 10, w |-> 10, window_size |-> 3, max_disparity |-> 5, k |-> 2]

\* ------------------------------------------------------------------ state
VARIABLES image_left, image_right, window_size, max_disparity,
          pc, err, padded_left, padded_right, D, y, x, writes, reads, last

vars == <<image_left, image_right, window_size, max_disparity,
          pc, err, padded_left, padded_right, D, y, x, writes, reads, last>>

inputs == <<image_left, image_right, window_size, max_disparity>>

NoMatch == [y |-> -1, x |-> -1, d |-> 0, tried |-> {}]

InitState ==
    /\ pc = "start"
    /\ err = "none"
    /\ padded_left = Zeros(0, 0)
    /\ padded_right = Zeros(0, 0)
    /\ D = Zeros(0, 0)
    /\ y = 0
    /\ x = 0
    /\ writes = <<>>
    /\ reads = {}
    /\ last = NoMatch

InitSmall ==
    /\ window_size \in 1 .. MaxWin
    /\ max_disparity \in 1 .. MaxDisp
    /\ \E h \in 1 .. MaxH, w \in 1 .. MaxW :
          /\ image_left \in Stripes(h, w) \cup {Gradient(h, w)}
          /\ image_right \in Stripes(h, w)
                \cup {ShiftLeft(Gradient(h, w), k) : k \in 0 .. w}
                \cup {ShiftRight(Gradient(h, w), k) : k \in 0 .. w}
    /\ InitState

InitScenario ==
    /\ window_size = Scenario.window_size
    /\ max_disparity = Scenario.max_disparity
    /\ image_left = Gradient(Scenario.h, Scenario.w)
    /\ image_right \in {ShiftLeft(image_left, Scenario.k), ShiftRight(image_left, Scenario.k)}
    /\ InitState

Init == InitSmall \/ InitScenario

\* sad, lines 67-75: allocate D, pad both images, take the padded shape
Setup ==
    /\ pc = "start"
    /\ LET padding == Padding(window_size)
           pl == add_padding(image_left, padding)
           pr == add_padding(image_right, padding)
       IN  /\ D' = Zeros(image_left.h, image_left.w)
           /\ writes' = [c \in Cells(image_left.h, image_left.w) |-> 0]
           /\ padded_left' = pl.img
           /\ padded_right' = pr.img
           /\ IF pl.ok /\ pr.ok
              THEN pc' = "loop" /\ err' = "none"
              ELSE pc' = "error" /\ err' = "ValueError"
    /\ UNCHANGED <<inputs, y, x, reads, last>>

\* sad, lines 80-86: one iteration of the pixel loops
Step ==
    /\ pc = "loop"
    /\ y < RowRange(padded_left.h, window_size)
    /\ x < ColRange(padded_left.w, window_size)
    /\ \E m \in {match_on_scanline(
                      Slice2D(padded_left, y, y + window_size, x, x + window_size),
                      padded_right, x, y, max_disparity, window_size)} :
           /\ reads' = {<<"left", y, y + window_size, x, x + window_size>>}
                  \cup {<<"right", y, y + window_size, DispX(x, d), DispX(x, d) + window_size>> : d \in m.tried}
           /\ IF m.err
              THEN /\ pc' = "error" /\ err' = "ValueError"
                   /\ UNCHANGED <<D, writes, y, x, last>>
              ELSE /\ last' = [y |-> y, x |-> x, d |-> m.d, tried |-> m.tried]
                   /\ IF IndexOk(y, D.h) /\ IndexOk(x, D.w)
                      THEN LET cell == <<IndexNorm(y, D.h), IndexNorm(x, D.w)>>
                           IN  /\ D' = [D EXCEPT !.px[cell] = m.d]
                               /\ writes' = [writes EXCEPT ![cell] = @ + 1]
                               /\ IF x + 1 < ColRange(padded_left.w, window_size)
                                  THEN x' = x + 1 /\ y' = y
                                  ELSE x' = 0 /\ y' = y + 1
                               /\ UNCHANGED <<pc, err>>
                      ELSE /\ pc' = "error" /\ err' = "IndexError"
                           /\ UNCHANGED <<D, writes, y, x>>
    /\ UNCHANGED <<inputs, padded_left, padded_right>>

\* sad, line 87: the loops are exhausted, D is returned
Return ==
    /\ pc = "loop"
    /\ \/ y >= RowRange(padded_left.h, window_size)
       \/ x >= ColRange(padded_left.w, window_size)
    /\ pc' = "done"
    /\ UNCHANGED <<inputs, err, padded_left, padded_right, D, y, x, writes, reads, last>>

Next == Setup \/ Step \/ Return

Spec == Init /\ [][Next]_vars

\* ------------------------------------------------- vocabulary of the claims
InGrid(c) == c \in Cells(image_left.h, image_left.w)

Written(c) == pc # "start" /\ InGrid(c) /\ writes[c] >= 1

\* candidate disparities of a pixel at padded column c
Candidates(c) == {d \in 0 .. max_disparity - 1 : c - d >= 0}

\* SAD of the left window anchored at (c, r) against the right window at (c - d, r)
SADAt(r, c, d) ==
    SumAbsDiff(Slice2D(padded_left, r, r + window_size, c, c + window_size),
               Slice2D(padded_right, r, r + window_size, c - d, c - d + window_size))

IsShiftLeft(k) == image_right = ShiftLeft(image_left, k)

IsShiftRight(k) == image_right = ShiftRight(image_left, k)

\* every row is positive and strictly increasing, so windows match uniquely
UniqueRows ==
    \A c \in Cells(image_left.h, image_left.w) :
        /\ image_left.px[c] > 0
        /\ c[2] + 1 < image_left.w => image_left.px[c] < image_left.px[<<c[1], c[2] + 1>>]

PaddedExactly(I, P, padding) ==
    /\ P.h = I.h + 2 * padding
    /\ P.w = I.w + 2 * padding
    /\ \A c \in Cells(P.h, P.w) :
          IF /\ padding <= c[1] /\ c[1] < I.h + padding
             /\ padding <= c[2] /\ c[2] < I.w + padding
          THEN P.px[c] = I.px[<<c[1] - padding, c[2] - padding>>]
          ELSE P.px[c] = 0

\* ------------------------------------------------------------------ claims

\* C1: the disparity returned by match_on_scanline is a candidate d (0 <= d <
\* max_disparity, x - d >= 0) whose SAD is minimal: no candidate has a strictly
\* smaller SAD.
C1_ReturnsMinimalSad ==
    last # NoMatch =>
        /\ last.d \in Candidates(last.x)
        /\ \A d2 \in Candidates(last.x) :
              SADAt(last.y, last.x, last.d) <= SADAt(last.y, last.x, d2)

\* C2: when sad has returned, every cell of the disparity map holds a value v
\* with 0 <= v < max_disparity.
C2_DisparityInRange ==
    pc = "done" => \A c \in Cells(D.h, D.w) : D.px[c] \in 0 .. max_disparity - 1

C2_Witness ==
    /\ pc = "done"
    /\ \E c \in Cells(D.h, D.w) : Written(c) /\ D.px[c] = max_disparity - 1 /\ D.px[c] >= 1
    /\ \E c \in Cells(D.h, D.w) : D.px[c] = 0

\* C3: for any padding >= 0, padding 0 included, add_padding returns a grid of
\* shape (H + 2 padding) x (W + 2 padding) whose centre region is the image and
\* whose other cells are zero.
C3_PaddingExact ==
    pc # "start" =>
        /\ pc # "error" \/ err # "ValueError"
        /\ PaddedExactly(image_left, padded_left, Padding(window_size))
        /\ PaddedExactly(image_right, padded_right, Padding(window_size))

\* C4: for every positive window_size, odd or even, no write of a disparity
\* targets a cell outside the H x W output grid, and the map sad returns has
\* exactly H rows and W columns.
C4_WritesStayInGrid ==
    /\ err # "IndexError"
    /\ pc = "done" => D.h = image_left.h /\ D.w = image_left.w

\* C5: when image_left and image_right are identical, every pixel in the
\* iterated range is assigned disparity 0.
C5_IdenticalImagesGiveZero ==
    image_left = image_right => \A c \in Cells(D.h, D.w) : Written(c) => D.px[c] = 0

C5_Witness ==
    /\ image_left = image_right
    /\ pc = "done"
    /\ \E c \in Cells(D.h, D.w) :
          /\ Written(c)
          /\ image_left.px[c] > 0
          /\ \E d \in Candidates(c[2]) : d >= 1 /\ SADAt(c[1], c[2], d) = 0

C7_FirstMinimumWins ==
    last # NoMatch =>
        \A d2 \in last.tried :
            d2 < last.d => SADAt(last.y, last.x, d2) > SADAt(last.y, last.x, last.d)

C7_Witness ==
    /\ last # NoMatch
    /\ last.d >= 1
    /\ \E d2 \in last.tried :
          d2 > last.d /\ SADAt(last.y, last.x, d2) = SADAt(last.y, last.x, last.d)

\* C8: every window read during sad, the left one and each candidate right one,
\* is a full window_size x window_size block inside the padded image.
C8_WindowsInsidePadded ==
    \A rd \in reads :
        /\ 0 <= rd[2] /\ rd[3] <= padded_left.h /\ rd[3] - rd[2] = window_size
        /\ 0 <= rd[4] /\ rd[5] <= padded_left.w /\ rd[5] - rd[4] = window_size
        /\ padded_right.h = padded_left.h /\ padded_right.w = padded_left.w

C8_Witness ==
    /\ \E rd \in reads : rd[1] = "right" /\ rd[4] = 0 /\ rd[2] = 0
    /\ \E rd \in reads : rd[1] = "left" /\ rd[5] = padded_left.w /\ rd[3] = padded_left.h
    /\ \E rd \in reads : rd[1] = "right" /\ rd[4] >= 1 /\ rd[4] < last.x

\* C9: for odd window_size >= 3 the iteration ranges are exactly the H x W
\* output grid: sad does not fail, on return every cell has been written exactly
\* once, and the window used for cell (y, x) is centred on original pixel (y, x).
C9_OddWindowCoversGrid ==
    (window_size >= 3 /\ window_size % 2 = 1) =>
        /\ pc # "error"
        /\ pc \in {"loop", "done"} =>
              /\ RowRange(padded_left.h, window_size) = image_left.h
              /\ ColRange(padded_left.w, window_size) = image_left.w
        /\ pc = "done" => \A c \in Cells(image_left.h, image_left.w) : writes[c] = 1
        /\ \A rd \in reads :
              rd[1] = "left" =>
                  /\ InGrid(<<last.y, last.x>>)
                  /\ writes[<<last.y, last.x>>] = 1
                  /\ padded_left.px[<<(rd[2] + rd[3] - 1) \div 2, (rd[4] + rd[5] - 1) \div 2>>]
                        = image_left.px[<<last.y, last.x>>]

C9_Witness ==
    /\ pc = "done"
    /\ window_size >= 3 /\ window_size % 2 = 1
    /\ image_left.h >= 2 /\ image_left.w >= 2
    /\ \A c \in Cells(image_left.h, image_left.w) : writes[c] = 1
    /\ \E c \in Cells(image_left.h, image_left.w) : image_left.px[c] # 0 /\ D.px[c] # 0

\* C10: the disparity stored at output cell (y, x) never exceeds the column
\* index: D[y, x] <= min(x, max_disparity - 1), so column 0 is always 0.
C10_DisparityAtMostColumn ==
    pc # "start" =>
        \A c \in Cells(D.h, D.w) : D.px[c] <= c[2] /\ D.px[c] <= max_disparity - 1

C10_Witness ==
    /\ pc = "done"
    /\ \E c \in Cells(D.h, D.w) : Written(c) /\ c[2] >= 1 /\ D.px[c] = c[2]
    /\ \E c \in Cells(D.h, D.w) : Written(c) /\ c[2] = 0 /\ SADAt(c[1], 0, 0) > 0

====
